---------------------------- MODULE Spec2Model ----------------------------
(***************************************************************************)
(* Canonical parameter encoding and request signing of the BingX client.   *)
(*                                                                         *)
(* Go strings are modelled as sequences of one-character strings (bytes of *)
(* printable ASCII), so that sorting, escaping, trimming and joining are   *)
(* computed the way the code computes them.  A parameter map is a TLA+     *)
(* function from keys to tagged values; the order in which Go iterates a   *)
(* map is an explicit, nondeterministic input.                             *)
(***************************************************************************)
EXTENDS Integers, Sequences, FiniteSets, TLC

(***************************************************************************)
(* Bytes and strings                                                       *)
(***************************************************************************)

\* The printable ASCII characters, in byte order starting at 32 (space); the
\* backslash and the backquote are written BS and BQ.
Ascii ==
  << " ", "!", "\"", "#", "$", "%", "&", "'", "(", ")", "*", "+", ",", "-", ".", "/",
     "0", "1", "2", "3", "4", "5", "6", "7", "8", "9", ":", ";", "<", "=", ">", "?",
     "@", "A", "B", "C", "D", "E", "F", "G", "H", "I", "J", "K", "L", "M", "N", "O",
     "P", "Q", "R", "S", "T", "U", "V", "W", "X", "Y", "Z", "[", "BS", "]", "^", "_",
     "BQ", "a", "b", "c", "d", "e", "f", "g", "h", "i", "j", "k", "l", "m", "n", "o",
     "p", "q", "r", "s", "t", "u", "v", "w", "x", "y", "z", "{", "|", "}", "~" >>

Chars == { Ascii[i] : i \in 1..Len(Ascii) }

\* The byte value of a character.
OrdTable == [ c \in Chars |-> 31 + (CHOOSE i \in 1..Len(Ascii) : Ascii[i] = c) ]

Ord(c) == OrdTable[c]

\* The byte of a letter in lower case.
LowerOrd(c) == IF Ord(c) >= Ord("A") /\ Ord(c) <= Ord("Z") THEN Ord(c) + 32 ELSE Ord(c)

\* A comparison that ignores the case of letters, as strings.ToLower on both
\* sides would give.
RECURSIVE StrLessIgnoreCase(_, _)
StrLessIgnoreCase(a, b) ==
  IF b = << >> THEN FALSE
  ELSE IF a = << >> THEN TRUE
  ELSE IF LowerOrd(Head(a)) # LowerOrd(Head(b)) THEN LowerOrd(Head(a)) < LowerOrd(Head(b))
  ELSE StrLessIgnoreCase(Tail(a), Tail(b))

\* Go's string comparison a < b: byte-wise, a proper prefix is smaller.
RECURSIVE StrLess(_, _)
StrLess(a, b) ==
  IF b = << >> THEN FALSE
  ELSE IF a = << >> THEN TRUE
  ELSE IF Ord(Head(a)) # Ord(Head(b)) THEN Ord(Head(a)) < Ord(Head(b))
  ELSE StrLess(Tail(a), Tail(b))

\* strings.ContainsAny(s, set)
ContainsAny(s, set) == \E i \in 1..Len(s) : s[i] \in set

\* The concatenation of the strings ss[lo..hi], by halves.
RECURSIVE ConcatRange(_, _, _)
ConcatRange(ss, lo, hi) ==
  IF lo > hi THEN << >>
  ELSE IF lo = hi THEN ss[lo]
  ELSE ConcatRange(ss, lo, (lo + hi) \div 2) \o ConcatRange(ss, ((lo + hi) \div 2) + 1, hi)

Concat(ss) == ConcatRange(ss, 1, Len(ss))

\* strings.Join(parts, sep)
Join(parts, sep) ==
  IF parts = << >> THEN << >>
  ELSE Concat([ i \in 1..(2 * Len(parts) - 1) |-> IF i % 2 = 1 THEN parts[(i + 1) \div 2] ELSE sep ])

\* strings.TrimRight(s, cutset)
RECURSIVE TrimRight(_, _)
TrimRight(s, cutset) ==
  IF s # << >> /\ s[Len(s)] \in cutset
  THEN TrimRight(SubSeq(s, 1, Len(s) - 1), cutset)
  ELSE s

\* strings.ReplaceAll(s, old, new) for a one-byte old.
ReplaceAll(s, old, new) ==
  Concat([ i \in 1..Len(s) |-> IF s[i] = old THEN new ELSE << s[i] >> ])

\* sort.Strings(keys): insertion sort by StrLess.
RECURSIVE InsertSorted(_, _)
InsertSorted(k, sorted) ==
  IF sorted = << >> THEN << k >>
  ELSE IF StrLess(k, Head(sorted)) THEN << k >> \o sorted
  ELSE << Head(sorted) >> \o InsertSorted(k, Tail(sorted))

\* The keys left in the order the map was iterated: sort.Strings forgotten.
Unsorted(keys) == keys

RECURSIVE SortStrings(_)
SortStrings(keys) ==
  IF keys = << >> THEN << >>
  ELSE InsertSorted(Head(keys), SortStrings(Tail(keys)))


(***************************************************************************)
(* Parameter values: the dynamic types a map[string]interface{} holds      *)
(***************************************************************************)

\* A Go string.
Str(s) == [kind |-> "string", s |-> s]

\* The decimal digits of n >= 0, most significant first.
RECURSIVE Digits(_)
Digits(n) == IF n < 10 THEN << n >> ELSE Digits(n \div 10) \o << n % 10 >>

\* An int64, by its sign and the digits of its magnitude (no leading zero,
\* empty for 0).
Int64(neg, ds) == [kind |-> "int64", neg |-> neg, ds |-> ds]

\* The int64 of a small number.
I64(n) == IF n = 0 THEN Int64(FALSE, << >>)
          ELSE Int64(n < 0, Digits(IF n < 0 THEN 0 - n ELSE n))

\* A float64, by its decimal expansion: sign, digits of the integer part
\* (no leading zero, empty for 0) and digits of the fraction (no trailing
\* zero, empty for an integral value).
F64(neg, ip, fp) == [kind |-> "float64", nan |-> FALSE, neg |-> neg, ip |-> ip, fp |-> fp]

\* math.NaN(): a float64 that is no number.
NaN == [kind |-> "float64", nan |-> TRUE, neg |-> FALSE, ip |-> << >>, fp |-> << >>]

\* A bool.
Bool(b) == [kind |-> "bool", b |-> b]

DigitChar(d) == Ascii[17 + d]

DigitChars(ds) == [ i \in 1..Len(ds) |-> DigitChar(ds[i]) ]

\* fmt.Sprintf("%d", n) for n >= 0: the decimal digits, most significant first.
RECURSIVE Itoa(_)
Itoa(n) == IF n < 10 THEN << DigitChar(n) >> ELSE Itoa(n \div 10) \o << DigitChar(n % 10) >>

\* fmt.Sprintf("%d", val) for an int64.
FormatInt(v) ==
  (IF v.neg THEN << "-" >> ELSE << >>)
  \o (IF v.ds = << >> THEN << "0" >> ELSE DigitChars(v.ds))

Zeros(n) == [ i \in 1..n |-> 0 ]

\* ds + 1 on a digit sequence, carrying into a new leading digit if needed.
RECURSIVE Incr(_)
Incr(ds) ==
  IF ds = << >> THEN << 1 >>
  ELSE IF ds[Len(ds)] < 9 THEN SubSeq(ds, 1, Len(ds) - 1) \o << ds[Len(ds)] + 1 >>
  ELSE Incr(SubSeq(ds, 1, Len(ds) - 1)) \o << 0 >>

\* fmt.Sprintf("%.*f", prec, val): the value rounded to prec fractional digits
\* (to nearest, an exact tie to the even digit), always with an integer digit.
FormatFixed(v, prec) ==
  LET padded == v.fp \o Zeros(IF Len(v.fp) < prec THEN prec - Len(v.fp) ELSE 0)
      kept   == v.ip \o SubSeq(padded, 1, prec)
      rest   == SubSeq(v.fp, prec + 1, Len(v.fp))
      odd    == kept # << >> /\ kept[Len(kept)] % 2 = 1
      up     == /\ rest # << >>
                /\ \/ rest[1] > 5
                   \/ /\ rest[1] = 5
                      /\ ((\E i \in 2..Len(rest) : rest[i] # 0) \/ odd)
      digits == IF up THEN Incr(kept) ELSE kept
      int    == SubSeq(digits, 1, Len(digits) - prec)
      frac   == SubSeq(digits, Len(digits) - prec + 1, Len(digits))
  IN  (IF v.neg THEN << "-" >> ELSE << >>)
      \o (IF int = << >> THEN << "0" >> ELSE DigitChars(int))
      \o (IF prec > 0 THEN << "." >> \o DigitChars(frac) ELSE << >>)

\* The bound below which an integral float is printed with "%.0f": 1e15,
\* i.e. at most MaxIntegralDigits digits.
MaxIntegralDigits == 15

\* Fractional digits printed for magnitudes >= 0.0001, and for smaller ones.
PrecisionNormal == 8

PrecisionSmall == 10

\* absVal >= 0.0001
AtLeastTenThousandth(v) ==
  v.ip # << >> \/ \E i \in 1..4 : i <= Len(v.fp) /\ v.fp[i] # 0

\* strings.TrimLeft / TrimRight on digit sequences: drop zeros.
RECURSIVE DropLeadingZeros(_)
DropLeadingZeros(ds) ==
  IF ds # << >> /\ Head(ds) = 0 THEN DropLeadingZeros(Tail(ds)) ELSE ds

RECURSIVE DropTrailingZeros(_)
DropTrailingZeros(ds) ==
  IF ds # << >> /\ ds[Len(ds)] = 0 THEN DropTrailingZeros(SubSeq(ds, 1, Len(ds) - 1)) ELSE ds

\* The exponent below which, and the exponent from which, "%v" prints a
\* float64 in the exponent form.
MinFixedExp == -4

MaxFixedExp == 6

\* fmt.Sprintf("%v", f) for a float64: the shortest digits, in the exponent
\* form when the decimal exponent is below -4 or at least 6.
FormatG(v) ==
  LET sig  == DropTrailingZeros(DropLeadingZeros(v.ip \o v.fp))
      exp  == IF v.ip # << >> THEN Len(v.ip) - 1
              ELSE 0 - (Len(v.fp) - Len(DropLeadingZeros(v.fp)) + 1)
      sign == IF v.neg THEN << "-" >> ELSE << >>
      mag  == IF exp < 0 THEN 0 - exp ELSE exp
  IN  IF sig = << >> THEN sign \o << "0" >>
      ELSE IF exp < MinFixedExp \/ exp >= MaxFixedExp
      THEN sign \o << DigitChar(sig[1]) >>
           \o (IF Len(sig) > 1 THEN << "." >> \o DigitChars(Tail(sig)) ELSE << >>)
           \o << "e", IF exp < 0 THEN "-" ELSE "+" >>
           \o (IF mag < 10 THEN << "0" >> ELSE << >>) \o Itoa(mag)
      ELSE sign \o (IF v.ip = << >> THEN << "0" >> ELSE DigitChars(v.ip))
           \o (IF v.fp = << >> THEN << >> ELSE << "." >> \o DigitChars(v.fp))

\* fmt.Sprintf("%v", v)
SprintV(v) ==
  CASE v.kind = "string"  -> v.s
    [] v.kind = "bool"    -> IF v.b THEN << "t", "r", "u", "e" >> ELSE << "f", "a", "l", "s", "e" >>
    [] v.kind = "int64"   -> FormatInt(v)
    [] v.kind = "float64" -> FormatG(v)

\* formatValue as it was before floats had a case of their own: "%v".
formatValueSprintV(v) ==
  SprintV(v)

\* formatValue stripping zeros and the point with one cutset, "0.".
formatValueOneCutset(v) ==
  IF v.kind = "float64" THEN
    IF v.ip = << >> /\ v.fp = << >> THEN << "0" >>
    ELSE IF v.fp = << >> /\ Len(v.ip) <= MaxIntegralDigits THEN FormatFixed(v, 0)
    ELSE LET precision == IF AtLeastTenThousandth(v) THEN PrecisionNormal ELSE PrecisionSmall
         IN  TrimRight(FormatFixed(v, precision), {"0", "."})
  ELSE IF v.kind = "int64" THEN FormatInt(v)
  ELSE SprintV(v)

\* Client.formatValue
formatValue(v) ==
  IF v.kind = "float64" THEN
    IF v.ip = << >> /\ v.fp = << >> THEN << "0" >>
    ELSE IF v.fp = << >> /\ Len(v.ip) <= MaxIntegralDigits THEN FormatFixed(v, 0)
    ELSE LET precision == IF AtLeastTenThousandth(v) THEN PrecisionNormal ELSE PrecisionSmall
             s         == FormatFixed(v, precision)
         IN  TrimRight(TrimRight(s, {"0"}), {"."})
  ELSE IF v.kind = "int64" THEN FormatInt(v)
  ELSE SprintV(v)

(***************************************************************************)
(* Escaping                                                                *)
(***************************************************************************)

UpperHex == << "0", "1", "2", "3", "4", "5", "6", "7", "8", "9", "A", "B", "C", "D", "E", "F" >>

IsAlnum(c) ==
  \/ Ord(c) >= Ord("0") /\ Ord(c) <= Ord("9")
  \/ Ord(c) >= Ord("A") /\ Ord(c) <= Ord("Z")
  \/ Ord(c) >= Ord("a") /\ Ord(c) <= Ord("z")

\* net/url shouldEscape(c, encodeQueryComponent)
ShouldEscape(c) == ~ (IsAlnum(c) \/ c \in {"-", "_", ".", "~"})

\* net/url QueryEscape of one byte.
EscapeByte(c) ==
  IF c = " " THEN << "+" >>
  ELSE IF ShouldEscape(c) THEN << "%", UpperHex[(Ord(c) \div 16) + 1], UpperHex[(Ord(c) % 16) + 1] >>
  ELSE << c >>

\* url.QueryEscape(s)
QueryEscape(s) == Concat([ i \in 1..Len(s) |-> EscapeByte(s[i]) ])

\* Client.isComplexValue
isComplexValue(value) == ContainsAny(value, {"[", "{"})

\* The escaping step without the rewriting of "+".
EncodeValueKeepPlus(value) == QueryEscape(value)

\* The escaping step of buildQueryString: QueryEscape, then "+" to "%20".
EncodeValue(value) == ReplaceAll(QueryEscape(value), "+", << "%", "2", "0" >>)

(***************************************************************************)
(* Canonicalization                                                        *)
(***************************************************************************)

\* The orders in which Go may iterate over a map with these keys.
IterationOrders(keys) ==
  { o \in [1..Cardinality(keys) -> keys] : \A i, j \in DOMAIN o : i # j => o[i] # o[j] }

\* A part whose value is escaped whenever urlEncode is set, complex or not.
QueryPartEscapeAll(params, key, urlEncode) ==
  LET value == formatValue(params[key])
  IN  key \o << "=" >> \o (IF urlEncode THEN EncodeValue(value) ELSE value)

\* A part escaped as a whole, key and "=" included, when its value is complex.
QueryPartEscapePair(params, key, urlEncode) ==
  LET value == formatValue(params[key])
  IN  IF urlEncode /\ isComplexValue(value) THEN EncodeValue(key \o << "=" >> \o value)
      ELSE key \o << "=" >> \o value

\* One key=value part of the query string.
QueryPart(params, key, urlEncode) ==
  LET value == formatValue(params[key])
  IN  key \o << "=" >> \o (IF urlEncode /\ isComplexValue(value) THEN EncodeValue(value) ELSE value)

\* buildQueryString with a loop that stops one key early.
buildQueryStringSkipsLast(params, urlEncode, order) ==
  LET keys  == SortStrings(order)
      parts == [ i \in 1..(Len(keys) - 1) |-> QueryPart(params, keys[i], urlEncode) ]
  IN  Join(parts, << "&" >>)

\* Client.buildQueryString, with the order in which the map's keys are iterated.
buildQueryString(params, urlEncode, order) ==
  LET keys  == SortStrings(order)
      parts == [ i \in 1..Len(keys) |-> QueryPart(params, keys[i], urlEncode) ]
  IN  Join(parts, << "&" >>)

\* containsComplexValues looking for "{" only.
containsComplexValuesBracesOnly(params) ==
  \E k \in DOMAIN params : ContainsAny(SprintV(params[k]), {"{"})

\* Client.containsComplexValues
containsComplexValues(params) ==
  \E k \in DOMAIN params : isComplexValue(SprintV(params[k]))


(***************************************************************************)
(* Typed requests and their conversion to a parameter map                  *)
(***************************************************************************)

\* The request structs: each field's JSON name, Go type and omitempty tag.
PlaceOrderRequest ==
  <<
     [name |-> << "s", "y", "m", "b", "o", "l" >>, kind |-> "string", omitempty |-> FALSE],
     [name |-> << "t", "y", "p", "e" >>, kind |-> "string", omitempty |-> FALSE],
     [name |-> << "s", "i", "d", "e" >>, kind |-> "string", omitempty |-> FALSE],
     [name |-> << "p", "o", "s", "i", "t", "i", "o", "n", "S", "i", "d", "e" >>, kind |-> "string", omitempty |-> TRUE],
     [name |-> << "r", "e", "d", "u", "c", "e", "O", "n", "l", "y" >>, kind |-> "string", omitempty |-> TRUE],
     [name |-> << "p", "r", "i", "c", "e" >>, kind |-> "float64", omitempty |-> TRUE],
     [name |-> << "q", "u", "a", "n", "t", "i", "t", "y" >>, kind |-> "float64", omitempty |-> TRUE],
     [name |-> << "s", "t", "o", "p", "P", "r", "i", "c", "e" >>, kind |-> "float64", omitempty |-> TRUE],
     [name |-> << "p", "r", "i", "c", "e", "R", "a", "t", "e" >>, kind |-> "float64", omitempty |-> TRUE],
     [name |-> << "s", "t", "o", "p", "L", "o", "s", "s" >>, kind |-> "string", omitempty |-> TRUE],
     [name |-> << "t", "a", "k", "e", "P", "r", "o", "f", "i", "t" >>, kind |-> "string", omitempty |-> TRUE],
     [name |-> << "w", "o", "r", "k", "i", "n", "g", "T", "y", "p", "e" >>, kind |-> "string", omitempty |-> TRUE],
     [name |-> << "c", "l", "i", "e", "n", "t", "O", "r", "d", "e", "r", "I", "d" >>, kind |-> "string", omitempty |-> TRUE],
     [name |-> << "r", "e", "c", "v", "W", "i", "n", "d", "o", "w" >>, kind |-> "int64", omitempty |-> TRUE],
     [name |-> << "t", "i", "m", "e", "I", "n", "F", "o", "r", "c", "e" >>, kind |-> "string", omitempty |-> TRUE],
     [name |-> << "c", "l", "o", "s", "e", "P", "o", "s", "i", "t", "i", "o", "n" >>, kind |-> "string", omitempty |-> TRUE],
     [name |-> << "a", "c", "t", "i", "v", "a", "t", "i", "o", "n", "P", "r", "i", "c", "e" >>, kind |-> "float64", omitempty |-> TRUE],
     [name |-> << "s", "t", "o", "p", "G", "u", "a", "r", "a", "n", "t", "e", "e", "d" >>, kind |-> "string", omitempty |-> TRUE],
     [name |-> << "p", "o", "s", "i", "t", "i", "o", "n", "I", "d" >>, kind |-> "int64", omitempty |-> TRUE]
  >>

CancelAllOrdersRequest ==
  <<
     [name |-> << "s", "y", "m", "b", "o", "l" >>, kind |-> "string", omitempty |-> FALSE],
     [name |-> << "r", "e", "c", "v", "W", "i", "n", "d", "o", "w" >>, kind |-> "int64", omitempty |-> TRUE]
  >>

SetLeverageRequest ==
  <<
     [name |-> << "s", "y", "m", "b", "o", "l" >>, kind |-> "string", omitempty |-> FALSE],
     [name |-> << "s", "i", "d", "e" >>, kind |-> "string", omitempty |-> FALSE],
     [name |-> << "l", "e", "v", "e", "r", "a", "g", "e" >>, kind |-> "int", omitempty |-> FALSE]
  >>

CloseAllPositionsRequest ==
  <<
     [name |-> << "s", "y", "m", "b", "o", "l" >>, kind |-> "string", omitempty |-> FALSE],
     [name |-> << "r", "e", "c", "v", "W", "i", "n", "d", "o", "w" >>, kind |-> "int64", omitempty |-> TRUE]
  >>

SetMarginTypeRequest ==
  <<
     [name |-> << "s", "y", "m", "b", "o", "l" >>, kind |-> "string", omitempty |-> FALSE],
     [name |-> << "m", "a", "r", "g", "i", "n", "T", "y", "p", "e" >>, kind |-> "string", omitempty |-> FALSE],
     [name |-> << "r", "e", "c", "v", "W", "i", "n", "d", "o", "w" >>, kind |-> "int64", omitempty |-> TRUE]
  >>


\* The zero value of a Go type.
ZeroOf(kind) ==
  CASE kind = "string"  -> Str(<< >>)
    [] kind = "float64" -> F64(FALSE, << >>, << >>)
    [] kind = "int64"   -> I64(0)
    [] kind = "int"     -> I64(0)

FieldNames(type) == { type[i].name : i \in 1..Len(type) }

\* A struct value with every field at its zero value.
ZeroStruct(type) ==
  [ n \in FieldNames(type) |-> ZeroOf(type[CHOOSE i \in 1..Len(type) : type[i].name = n].kind) ]

\* encoding/json isEmptyValue: what omitempty leaves out.
IsEmptyValue(v) ==
  CASE v.kind = "string"  -> v.s = << >>
    [] v.kind = "float64" -> ~ v.nan /\ v.ip = << >> /\ v.fp = << >>
    [] v.kind = "int64"   -> v.ds = << >>

\* strconv 'e' format with the shortest digits: d[.ddd]e(+|-)dd, the exponent
\* with at least minExpDigits digits.
FormatE(v, minExpDigits) ==
  LET sig == DropTrailingZeros(DropLeadingZeros(v.ip \o v.fp))
      exp == IF v.ip # << >> THEN Len(v.ip) - 1
             ELSE 0 - (Len(v.fp) - Len(DropLeadingZeros(v.fp)) + 1)
      mag == IF exp < 0 THEN 0 - exp ELSE exp
  IN  (IF v.neg THEN << "-" >> ELSE << >>)
      \o << DigitChar(sig[1]) >>
      \o (IF Len(sig) > 1 THEN << "." >> \o DigitChars(Tail(sig)) ELSE << >>)
      \o << "e", IF exp < 0 THEN "-" ELSE "+" >>
      \o (IF mag < 10 /\ minExpDigits > 1 THEN << "0" >> ELSE << >>) \o Itoa(mag)

\* strconv 'f' format with the shortest digits.
FormatF(v) ==
  (IF v.neg THEN << "-" >> ELSE << >>)
  \o (IF v.ip = << >> THEN << "0" >> ELSE DigitChars(v.ip))
  \o (IF v.fp = << >> THEN << >> ELSE << "." >> \o DigitChars(v.fp))

\* encoding/json switches a float64 to the exponent form below 1e-6 and
\* from 1e21: fewer than JSONMinFracZeros+1 leading fraction zeros, at most
\* JSONMaxIntDigits integer digits stay in the fixed form.
JSONMinFracZeros == 5

JSONMaxIntDigits == 21

\* encoding/json floatEncoder: the number literal of a float64.
JSONFloat(v) ==
  LET zeros == Len(v.fp) - Len(DropLeadingZeros(v.fp))
  IN  IF v.ip = << >> /\ v.fp = << >> THEN FormatF(v)
      ELSE IF (v.ip = << >> /\ zeros > JSONMinFracZeros) \/ Len(v.ip) > JSONMaxIntDigits
      THEN FormatE(v, 1)
      ELSE FormatF(v)

\* json.Marshal of one field value: a JSON string or a JSON number literal.
JSONValue(v) ==
  CASE v.kind = "string"  -> [t |-> "string", s |-> v.s]
    [] v.kind = "float64" -> [t |-> "number", lit |-> JSONFloat(v)]
    [] v.kind = "int64"   -> [t |-> "number", lit |-> FormatInt(v)]

\* json.Marshal fails with an UnsupportedValueError on a float64 that is NaN.
MarshalFails(type, val) ==
  \E i \in 1..Len(type) : val[type[i].name].kind = "float64" /\ val[type[i].name].nan

\* json.Marshal of a struct: the members in field order, omitempty fields
\* with an empty value left out.
RECURSIVE MarshalFields(_, _)
MarshalFields(type, val) ==
  IF type = << >> THEN << >>
  ELSE LET f == Head(type)
       IN  (IF f.omitempty /\ IsEmptyValue(val[f.name]) THEN << >>
            ELSE << [name |-> f.name, value |-> JSONValue(val[f.name])] >>)
           \o MarshalFields(Tail(type), val)

IndexOf(s, c) == IF \E i \in 1..Len(s) : s[i] = c
                 THEN CHOOSE i \in 1..Len(s) : s[i] = c /\ \A j \in 1..(i - 1) : s[j] # c
                 ELSE 0

DigitVal(c) == Ord(c) - Ord("0")

DigitVals(cs) == [ i \in 1..Len(cs) |-> DigitVal(cs[i]) ]

RECURSIVE Atoi(_)
Atoi(cs) == IF cs = << >> THEN 0 ELSE 10 * Atoi(SubSeq(cs, 1, Len(cs) - 1)) + DigitVal(cs[Len(cs)])

\* ds / 2 and ds * 2 on digit sequences.
HalveDigits(ds) ==
  DropLeadingZeros([ i \in 1..Len(ds) |->
    (ds[i] + (IF i > 1 /\ ds[i - 1] % 2 = 1 THEN 10 ELSE 0)) \div 2 ])

DoubleDigits(ds) ==
  (IF ds # << >> /\ ds[1] >= 5 THEN << 1 >> ELSE << >>)
  \o [ i \in 1..Len(ds) |->
       ((2 * ds[i]) % 10) + (IF i < Len(ds) /\ ds[i + 1] >= 5 THEN 1 ELSE 0) ]

DigitsLess(a, b) ==
  \/ Len(a) < Len(b)
  \/ /\ Len(a) = Len(b)
     /\ \E i \in 1..Len(a) : a[i] < b[i] /\ \A j \in 1..(i - 1) : a[j] = b[j]

\* 2^53: from here on a float64 no longer holds every integer.
TwoTo53 == << 9, 0, 0, 7, 1, 9, 9, 2, 5, 4, 7, 4, 0, 9, 9, 2 >>

\* The integer ds rounded to the nearest float64: bits are shifted out until
\* the rest fits the significand, which is then rounded to nearest, a tie to
\* even (half: the last bit shifted out; sticky: any bit before it).
RECURSIVE RoundBits(_, _, _)
RoundBits(ds, half, sticky) ==
  IF DigitsLess(ds, TwoTo53)
  THEN IF half /\ (sticky \/ ds[Len(ds)] % 2 = 1) THEN Incr(ds) ELSE ds
  ELSE DoubleDigits(RoundBits(HalveDigits(ds), ds[Len(ds)] % 2 = 1, sticky \/ half))

NearestFloat64(ds) == RoundBits(ds, FALSE, FALSE)

\* strconv.ParseFloat of a JSON number literal, as json.Unmarshal does for
\* an interface{} target: sign, integer digits, fraction, decimal exponent.
ParseFloat(lit) ==
  LET neg   == lit # << >> /\ Head(lit) = "-"
      body  == IF neg THEN Tail(lit) ELSE lit
      e     == IndexOf(body, "e")
      mant  == IF e = 0 THEN body ELSE SubSeq(body, 1, e - 1)
      etxt  == IF e = 0 THEN << >> ELSE SubSeq(body, e + 1, Len(body))
      eneg  == etxt # << >> /\ Head(etxt) = "-"
      edig  == IF etxt # << >> /\ Head(etxt) \in {"-", "+"} THEN Tail(etxt) ELSE etxt
      exp   == IF eneg THEN 0 - Atoi(edig) ELSE Atoi(edig)
      dot   == IndexOf(mant, ".")
      ipd   == DigitVals(IF dot = 0 THEN mant ELSE SubSeq(mant, 1, dot - 1))
      fpd   == DigitVals(IF dot = 0 THEN << >> ELSE SubSeq(mant, dot + 1, Len(mant)))
      fpad  == fpd \o Zeros(IF exp > Len(fpd) THEN exp - Len(fpd) ELSE 0)
      ipad  == Zeros(IF 0 - exp > Len(ipd) THEN 0 - exp - Len(ipd) ELSE 0) \o ipd
      ip    == IF exp >= 0 THEN ipd \o SubSeq(fpad, 1, exp)
               ELSE SubSeq(ipad, 1, Len(ipad) + exp)
      fp    == IF exp >= 0 THEN SubSeq(fpad, exp + 1, Len(fpad))
               ELSE SubSeq(ipad, Len(ipad) + exp + 1, Len(ipad)) \o fpd
      int   == DropLeadingZeros(ip)
      frac  == DropTrailingZeros(fp)
  IN  F64(neg, IF frac = << >> THEN NearestFloat64(int) ELSE int, frac)

\* json.Unmarshal of one JSON value into interface{}: a string stays a
\* string, every number becomes a float64.
UnmarshalValue(j) ==
  IF j.t = "string" THEN Str(j.s) ELSE ParseFloat(j.lit)

\* json.Unmarshal of an object into map[string]interface{}.
UnmarshalObject(members) ==
  [ n \in { members[i].name : i \in 1..Len(members) } |->
      UnmarshalValue(members[CHOOSE i \in 1..Len(members) : members[i].name = n].value) ]

\* A zero test that knows the numbers only and keeps empty strings.
IsZeroParamNumbersOnly(v) ==
  CASE v.kind = "float64" -> v.ip = << >> /\ v.fp = << >>
    [] v.kind = "int64"   -> v.ds = << >>
    [] OTHER              -> FALSE

\* The zero test of structToMap: nil, "", float64 0.0 and int64 0.
IsZeroParam(v) ==
  CASE v.kind = "string"  -> v.s = << >>
    [] v.kind = "float64" -> v.ip = << >> /\ v.fp = << >>
    [] v.kind = "int64"   -> v.ds = << >>
    [] OTHER              -> FALSE

\* structToMap: marshal the struct, unmarshal it into a map, delete the
\* entries with a nil or zero value.
structToMap(type, val) ==
  LET result == UnmarshalObject(MarshalFields(type, val))
      kept   == { k \in DOMAIN result : ~ IsZeroParam(result[k]) }
  IN  [ k \in kept |-> result[k] ]


(***************************************************************************)
(* Signing                                                                 *)
(***************************************************************************)

\* sha256.Size: the bytes of a digest.
DigestSize == 32

LowerHex == << "0", "1", "2", "3", "4", "5", "6", "7", "8", "9", "a", "b", "c", "d", "e", "f" >>

\* The hexadecimal form with the digits A-F in upper case.
hexEncodeUpper(bytes) ==
  [ i \in 1..(2 * Len(bytes)) |->
      IF i % 2 = 1 THEN UpperHex[(bytes[(i + 1) \div 2] \div 16) + 1]
      ELSE UpperHex[(bytes[i \div 2] % 16) + 1] ]

\* hex.EncodeToString
hexEncode(bytes) ==
  [ i \in 1..(2 * Len(bytes)) |->
      IF i % 2 = 1 THEN LowerHex[(bytes[(i + 1) \div 2] \div 16) + 1]
      ELSE LowerHex[(bytes[i \div 2] % 16) + 1] ]

\* A stand-in for the compression of crypto/hmac with SHA-256: a
\* position-weighted sum of the bytes bytes[lo..hi], by halves.
RECURSIVE Mix(_, _, _)
Mix(bytes, lo, hi) ==
  IF lo > hi THEN 0
  ELSE IF lo = hi THEN ((131 * lo + 7) * Ord(bytes[lo])) % 65521
  ELSE (Mix(bytes, lo, (lo + hi) \div 2) + Mix(bytes, ((lo + hi) \div 2) + 1, hi)) % 65521

\* hmac.New(sha256.New, key); h.Write(message); h.Sum(nil): DigestSize bytes.
hmacSHA256(key, message) ==
  LET h == (Mix(key, 1, Len(key)) * 257 + Mix(message, 1, Len(message))) % 65521
  IN  [ i \in 1..DigestSize |-> ((h + i) * (2 * i + 1)) % 256 ]

\* Client.sign
sign(apiSecret, message) == hexEncode(hmacSHA256(apiSecret, message))

(***************************************************************************)
(* The client and one API call                                             *)
(***************************************************************************)

defaultBaseURL == "https://open-api.bingx.com"

apiKeyHeader == "X-BX-APIKEY"

TimestampKey == << "t", "i", "m", "e", "s", "t", "a", "m", "p" >>

SignatureParam == << "s", "i", "g", "n", "a", "t", "u", "r", "e" >>

\* NewClient rejecting a configuration only when both credentials are empty.
NewClientBothEmpty(cfg) ==
  IF cfg.APIKey = << >> /\ cfg.APISecret = << >>
  THEN [cfg |-> cfg, ok |-> FALSE, err |-> "ErrInvalidCredentials",
        apiKey |-> << >>, apiSecret |-> << >>, baseURL |-> ""]
  ELSE [cfg |-> cfg, ok |-> TRUE, err |-> "nil",
        apiKey |-> cfg.APIKey, apiSecret |-> cfg.APISecret,
        baseURL |-> IF cfg.BaseURL = "" THEN defaultBaseURL ELSE cfg.BaseURL]

\* NewClient
NewClient(cfg) ==
  IF cfg.APIKey = << >> \/ cfg.APISecret = << >>
  THEN [cfg |-> cfg, ok |-> FALSE, err |-> "ErrInvalidCredentials",
        apiKey |-> << >>, apiSecret |-> << >>, baseURL |-> ""]
  ELSE [cfg |-> cfg, ok |-> TRUE, err |-> "nil",
        apiKey |-> cfg.APIKey, apiSecret |-> cfg.APISecret,
        baseURL |-> IF cfg.BaseURL = "" THEN defaultBaseURL ELSE cfg.BaseURL]

\* An error value: the sentinel it wraps with %w ("" when it wraps none of
\* the package's sentinels), its format, and the status and body put into it.
Errorf(is, format, status, body) == [is |-> is, format |-> format, status |-> status, body |-> body]

\* The nil error.
NoError == Errorf("nil", "", 0, "")

\* What the transport answers: whether Do and ReadAll succeed, the status
\* code and the body.
Answer(do, read, status, body) == [do |-> do, read |-> read, status |-> status, body |-> body]

\* No answer yet.
NoOutcome == Answer("", "", 0, "")

\* The public operations: method, endpoint and request struct (none for the
\* operations that pass nil parameters).
Operations ==
  { [name |-> "PlaceOrder", method |-> "POST", endpoint |-> "/openApi/swap/v2/trade/order",
     hasReq |-> TRUE, type |-> PlaceOrderRequest],
    [name |-> "CancelAllOrders", method |-> "DELETE", endpoint |-> "/openApi/swap/v2/trade/allOpenOrders",
     hasReq |-> TRUE, type |-> CancelAllOrdersRequest],
    [name |-> "SetLeverage", method |-> "POST", endpoint |-> "/openApi/swap/v2/trade/leverage",
     hasReq |-> TRUE, type |-> SetLeverageRequest],
    [name |-> "ListSymbols", method |-> "GET", endpoint |-> "/openApi/swap/v1/ticker/price",
     hasReq |-> FALSE, type |-> << >>],
    [name |-> "GetContracts", method |-> "GET", endpoint |-> "/openApi/swap/v2/quote/contracts",
     hasReq |-> FALSE, type |-> << >>],
    [name |-> "CloseAllPositions", method |-> "POST", endpoint |-> "/openApi/swap/v2/trade/closeAllPositions",
     hasReq |-> TRUE, type |-> CloseAllPositionsRequest],
    [name |-> "SetMarginType", method |-> "POST", endpoint |-> "/openApi/swap/v2/trade/marginType",
     hasReq |-> TRUE, type |-> SetMarginTypeRequest] }

OpOf(name) == CHOOSE op \in Operations : op.name = name

NoRequest == [method |-> "", endpoint |-> "", rawQuery |-> << >>, fragment |-> << >>,
              header |-> << >>, body |-> "nil"]

\* What an operation returns: the response (nil, or what the response struct
\* pointed to holds: "all" of the body, a "partial" decode or "none" of it)
\* and the error; local is what the operation's resp variable held.
Returned(resp, err, local) == [resp |-> resp, err |-> err, local |-> local]

\* Nothing returned yet.
NoReturn == Returned("", NoError, "none")

\* A call that has not started.
IdleCall ==
  [pc |-> "idle", op |-> "", method |-> "", endpoint |-> "", req |-> << >>,
   nilParams |-> FALSE, params |-> << >>, timestamp |-> I64(0),
   queryString |-> << >>, signedMessage |-> << >>, signature |-> << >>,
   finalQuery |-> << >>, request |-> NoRequest,
   outcome |-> NoOutcome, sends |-> 0, err |-> NoError, hasResp |-> FALSE,
   filled |-> "none", returned |-> NoReturn]

\* An API operation up to its call of doRequest: structToMap of the request,
\* or nil parameters.
InvokeStep(c, op, req) ==
  IF op.hasReq /\ MarshalFails(op.type, req)
  THEN [c EXCEPT !.pc = "done", !.op = op.name, !.req = req, !.returned = NoReturn,
                 !.err = Errorf("", "failed to convert request: %w", 0, "")]
  ELSE [c EXCEPT !.pc = "called", !.op = op.name, !.method = op.method, !.endpoint = op.endpoint,
                 !.req = req, !.returned = NoReturn,
                 !.nilParams = ~ op.hasReq,
                 !.params = IF op.hasReq THEN structToMap(op.type, req) ELSE << >>]

\* doRequest: params["timestamp"] = time.Now().UnixMilli(), on a fresh map
\* when params is nil.
StampStep(c, now) ==
  [c EXCEPT !.pc = "stamped", !.nilParams = FALSE, !.timestamp = now,
            !.params = [ k \in (DOMAIN c.params) \cup {TimestampKey} |->
                           IF k = TimestampKey THEN now ELSE c.params[k] ]]

\* SignStep with the two encodings the wrong way round: the signature is
\* computed over the string that is transmitted.
SignStepOverTransmitted(c, apiSecret, order) ==
  LET queryString == buildQueryString(c.params, containsComplexValues(c.params), order)
  IN  [c EXCEPT !.pc = "signed", !.queryString = queryString,
                !.signedMessage = queryString,
                !.signature = sign(apiSecret, queryString)]

\* doRequest: queryString := buildQueryString(params, false);
\* signature := sign(queryString)
SignStep(c, apiSecret, order) ==
  LET queryString == buildQueryString(c.params, FALSE, order)
  IN  [c EXCEPT !.pc = "signed", !.queryString = queryString,
                !.signedMessage = queryString,
                !.signature = sign(apiSecret, queryString)]

\* doRequest: the string to transmit, encoded when a value is complex.
EncodeStep(c, order) ==
  [c EXCEPT !.pc = "encoded",
            !.queryString = IF containsComplexValues(c.params)
                            THEN buildQueryString(c.params, TRUE, order)
                            ELSE c.queryString]

IsHex(ch) == ch \in { UpperHex[i] : i \in 1..16 } \cup { LowerHex[i] : i \in 1..16 }

\* net/url: every "%" of a fragment must start a %XX escape.
ValidEscapes(s) ==
  \A i \in 1..Len(s) : s[i] = "%" => (i + 2 <= Len(s) /\ IsHex(s[i + 1]) /\ IsHex(s[i + 2]))

\* url.Parse of baseURL + endpoint + "?" + finalQuery, for a base URL and an
\* endpoint without "?" and "#": the query ends at the first "#", what
\* follows is the fragment, which is not sent.
ParseQuery(finalQuery) ==
  LET hash == IndexOf(finalQuery, "#")
  IN  IF hash = 0 THEN [ok |-> TRUE, rawQuery |-> finalQuery, fragment |-> << >>]
      ELSE [ok |-> ValidEscapes(SubSeq(finalQuery, hash + 1, Len(finalQuery))),
            rawQuery |-> SubSeq(finalQuery, 1, hash - 1),
            fragment |-> SubSeq(finalQuery, hash + 1, Len(finalQuery))]

\* doRequest: finalQuery, http.NewRequestWithContext and the API key header.
BuildStep(c, apiKey) ==
  LET finalQuery == c.queryString \o << "&" >> \o SignatureParam \o << "=" >> \o c.signature
      url        == ParseQuery(finalQuery)
  IN  IF url.ok
      THEN [c EXCEPT !.pc = "built", !.finalQuery = finalQuery,
                     !.request = [method |-> c.method, endpoint |-> c.endpoint,
                                  rawQuery |-> url.rawQuery, fragment |-> url.fragment,
                                  header |-> << [name |-> apiKeyHeader, value |-> apiKey] >>,
                                  body |-> "nil"]]
      ELSE [c EXCEPT !.pc = "done", !.finalQuery = finalQuery,
                     !.err = Errorf("", "failed to create request: %w", 0, "")]

\* http.StatusOK
StatusOK == 200

\* The bodies a server sends: a JSON object and a text that is not JSON.
Bodies == { "{\"code\":0,\"msg\":\"\"}", "Bad Gateway" }

\* A JSON object whose code is a string: json.Unmarshal fills msg, fails on
\* code with an UnmarshalTypeError and leaves the result partly filled.
MistypedJSON == "{\"code\":\"x\",\"msg\":\"m\"}"

\* The bodies json.Unmarshal decodes into the result.
ValidJSON == { "{\"code\":0,\"msg\":\"\"}" }

\* What the transport and the server may answer.
Outcomes ==
  { Answer("error", "", 0, ""), Answer("ok", "error", StatusOK, "") }
    \cup { Answer("ok", "ok", status, body) : status \in { StatusOK, 500 }, body \in Bodies }
    \cup { Answer("ok", "ok", StatusOK, MistypedJSON) }

\* doRequest: c.httpClient.Do(req)
SendStep(c, outcome) == [c EXCEPT !.pc = "sent", !.outcome = outcome, !.sends = c.sends + 1]

\* doRequest sending the request once more after a transport failure.
FinishStepRetrying(c) ==
  LET o == c.outcome
  IN  IF o.do = "error" /\ c.sends < 2 THEN [c EXCEPT !.pc = "built"]
      ELSE
      [c EXCEPT !.pc = "done",
                !.err = IF o.do = "error" THEN Errorf("ErrRequestFailed", "%w: %v", 0, "")
                        ELSE IF o.read = "error" THEN Errorf("", "failed to read response: %w", 0, "")
                        ELSE IF o.status # StatusOK
                        THEN Errorf("ErrRequestFailed", "%w: status %d, body: %s", o.status, o.body)
                        ELSE IF o.body \notin ValidJSON THEN Errorf("ErrInvalidResponse", "%w: %v", 0, "")
                        ELSE NoError,
                !.hasResp = (o.do = "ok" /\ o.read = "ok" /\ o.status = StatusOK /\ o.body \in ValidJSON),
                !.filled = IF o.do = "ok" /\ o.read = "ok" /\ o.status = StatusOK
                           THEN (IF o.body \in ValidJSON THEN "all"
                                 ELSE IF o.body = MistypedJSON THEN "partial" ELSE "none")
                           ELSE "none"]

\* doRequest decoding the body without looking at the status.
FinishStepAnyStatus(c) ==
  LET o == c.outcome
  IN  [c EXCEPT !.pc = "done",
                !.err = IF o.do = "error" THEN Errorf("ErrRequestFailed", "%w: %v", 0, "")
                        ELSE IF o.read = "error" THEN Errorf("", "failed to read response: %w", 0, "")
                        ELSE IF o.body \notin ValidJSON THEN Errorf("ErrInvalidResponse", "%w: %v", 0, "")
                        ELSE NoError,
                !.hasResp = (o.do = "ok" /\ o.read = "ok" /\ o.body \in ValidJSON)]

\* An operation returning its response together with the error of doRequest.
ReturnStepWithResponse(c) ==
  [IdleCall EXCEPT !.returned = Returned(c.filled, c.err, c.filled)]

\* An operation after doRequest (or after a failed structToMap): nil and the
\* error, or the response and nil.
ReturnStep(c) ==
  [IdleCall EXCEPT !.returned = IF c.err # NoError THEN Returned("nil", c.err, c.filled)
                                ELSE Returned(c.filled, NoError, c.filled)]

\* doRequest: from the answer to the returned error.
FinishStep(c) ==
  LET o == c.outcome
  IN  [c EXCEPT !.pc = "done",
                !.err = IF o.do = "error" THEN Errorf("ErrRequestFailed", "%w: %v", 0, "")
                        ELSE IF o.read = "error" THEN Errorf("", "failed to read response: %w", 0, "")
                        ELSE IF o.status # StatusOK
                        THEN Errorf("ErrRequestFailed", "%w: status %d, body: %s", o.status, o.body)
                        ELSE IF o.body \notin ValidJSON THEN Errorf("ErrInvalidResponse", "%w: %v", 0, "")
                        ELSE NoError,
                !.hasResp = (o.do = "ok" /\ o.read = "ok" /\ o.status = StatusOK /\ o.body \in ValidJSON),
                !.filled = IF o.do = "ok" /\ o.read = "ok" /\ o.status = StatusOK
                           THEN (IF o.body \in ValidJSON THEN "all"
                                 ELSE IF o.body = MistypedJSON THEN "partial" ELSE "none")
                           ELSE "none"]


(***************************************************************************)
(* State                                                                   *)
(***************************************************************************)

VARIABLES
  client,   \* the Client built by NewClient: apiKey, apiSecret, baseURL
  call,     \* the API call in progress, from its request to its result
  ncalls,   \* the calls this client has completed
  canon,    \* a parameter set and what buildQueryString returned for it
  conc      \* concurrent calls on the client and the parameter maps they use

vars == << client, call, ncalls, canon, conc >>

\* The most fields a request sets to a non-zero value.
MaxFields == 2

\* The most calls made on one client.
MaxCalls == 2

\* The most entries of a parameter set handed to buildQueryString.
MaxKeys == 3

\* The configurations NewClient is called with.
Configs ==
  [APIKey : {<< >>, << "k", "1" >>}, APISecret : {<< >>, << "s", "3", "c" >>},
   BaseURL : {"", "http://localhost"}]

\* What time.Now().UnixMilli() may return.
Timestamps == { I64(3), Int64(FALSE, << 1, 7 >> \o Zeros(11)) }

\* The non-zero values a caller gives to fields of a request.
FieldChoices ==
  {
    [field |-> << "s", "y", "m", "b", "o", "l" >>, value |-> Str(<< "B", "-", "U" >>)],
    [field |-> << "s", "i", "d", "e" >>, value |-> Str(<< "B", "U", "Y" >>)],
    [field |-> << "m", "a", "r", "g", "i", "n", "T", "y", "p", "e" >>, value |-> Str(<< "C", "R", "O", "S", "S", "E", "D" >>)],
    [field |-> << "c", "l", "i", "e", "n", "t", "O", "r", "d", "e", "r", "I", "d" >>, value |-> Str(<< "a", "#", "b" >>)],
    [field |-> << "c", "l", "i", "e", "n", "t", "O", "r", "d", "e", "r", "I", "d" >>, value |-> Str(<< "#", "%" >>)],
    [field |-> << "c", "l", "i", "e", "n", "t", "O", "r", "d", "e", "r", "I", "d" >>, value |-> Str(<< "%", "4", "1", "&", "s", "=", "1" >>)],
    [field |-> << "t", "a", "k", "e", "P", "r", "o", "f", "i", "t" >>, value |-> Str(<< "{", "\"", "t", "\"", ":", " ", "\"", "P", "+", "\"", "}" >>)],
    [field |-> << "s", "t", "o", "p", "L", "o", "s", "s" >>, value |-> Str(<< "[", "1", "]" >>)],
    [field |-> << "p", "r", "i", "c", "e" >>, value |-> F64(FALSE, << >>, << 1 >>)],
    [field |-> << "p", "r", "i", "c", "e" >>, value |-> NaN],
    [field |-> << "q", "u", "a", "n", "t", "i", "t", "y" >>, value |-> F64(FALSE, << 1, 0, 0 >>, << >>)],
    [field |-> << "p", "r", "i", "c", "e", "R", "a", "t", "e" >>, value |-> F64(TRUE, << >>, << 0, 0, 0, 0, 0, 0, 0, 0, 0, 0, 1 >>)],
    [field |-> << "r", "e", "c", "v", "W", "i", "n", "d", "o", "w" >>, value |-> I64(5000)],
    [field |-> << "p", "o", "s", "i", "t", "i", "o", "n", "I", "d" >>, value |-> Int64(FALSE, << 9, 0, 0, 7, 1, 9, 9, 2, 5, 4, 7, 4, 0, 9, 9, 3 >>)],
    [field |-> << "l", "e", "v", "e", "r", "a", "g", "e" >>, value |-> I64(20)]
  }

\* The requests of a struct type: at most MaxFields fields set, the others
\* at their zero value.
Requests(type) ==
  LET usable == { a \in FieldChoices : a.field \in FieldNames(type) }
      picks  == { A \in SUBSET usable :
                    /\ Cardinality(A) <= MaxFields
                    /\ \A a, b \in A : a.field = b.field => a = b }
  IN  { [ n \in FieldNames(type) |->
            IF \E a \in A : a.field = n
            THEN (CHOOSE a \in A : a.field = n).value
            ELSE ZeroStruct(type)[n] ] : A \in picks }

\* No concurrent calls.
NoConc == [heap |-> << >>, calls |-> << >>]

NoCanon == [stage |-> "none", params |-> << >>, plain |-> << >>, again |-> << >>, encoded |-> << >>,
            secret |-> << >>, signature |-> << >>]

Init ==
  /\ \E cfg \in Configs : client = NewClient(cfg)
  /\ call = IdleCall
  /\ ncalls = 0
  /\ canon = NoCanon
  /\ conc = NoConc

(***************************************************************************)
(* The steps of an API call                                                *)
(***************************************************************************)

Invoke ==
  /\ client.ok
  /\ call.pc = "idle"
  /\ ncalls < MaxCalls
  /\ \E op \in Operations :
       \E req \in (IF op.hasReq THEN Requests(op.type) ELSE {<< >>}) :
         call' = InvokeStep(call, op, req)
  /\ UNCHANGED << client, ncalls, canon, conc >>

Stamp ==
  /\ call.pc = "called"
  /\ \E now \in Timestamps : call' = StampStep(call, now)
  /\ UNCHANGED << client, ncalls, canon, conc >>

Sign ==
  /\ call.pc = "stamped"
  /\ \E order \in IterationOrders(DOMAIN call.params) :
       call' = SignStep(call, client.apiSecret, order)
  /\ UNCHANGED << client, ncalls, canon, conc >>

Encode ==
  /\ call.pc = "signed"
  /\ \E order \in IterationOrders(DOMAIN call.params) :
       call' = EncodeStep(call, order)
  /\ UNCHANGED << client, ncalls, canon, conc >>

Build ==
  /\ call.pc = "encoded"
  /\ call' = BuildStep(call, client.apiKey)
  /\ UNCHANGED << client, ncalls, canon, conc >>

Send ==
  /\ call.pc = "built"
  /\ \E outcome \in Outcomes : call' = SendStep(call, outcome)
  /\ UNCHANGED << client, ncalls, canon, conc >>

Finish ==
  /\ call.pc = "sent"
  /\ call' = FinishStep(call)
  /\ UNCHANGED << client, ncalls, canon, conc >>

\* The operation returns to its caller; the client is ready for the next call.
Return ==
  /\ call.pc = "done"
  /\ call' = ReturnStep(call)
  /\ ncalls' = ncalls + 1
  /\ UNCHANGED << client, canon, conc >>

Next == Invoke \/ Stamp \/ Sign \/ Encode \/ Build \/ Send \/ Finish \/ Return

Spec == Init /\ [][Next]_vars


(***************************************************************************)
(* buildQueryString on its own, over arbitrary parameter sets              *)
(***************************************************************************)

\* Keys of the parameter sets: lower and upper case, the injected key, and a
\* key that sorts after it.
CanonKeys == { << "a" >>, << "B" >>, TimestampKey, << "t", "y", "p", "e" >> }

\* Values of the parameter sets: plain strings (one with the bytes that
\* matter in a query), strings holding a JSON fragment, an integer, a float
\* and a bool.
CanonValues ==
  { Str(<< "1" >>),
    Str(<< "%", "2", "B", " ", "&", "=", "+" >>),
    Str(<< "1", "&", "a", "=", "1" >>),
    Str(<< "{", "\"", "t", "\"", ":", " ", "\"", "P", "+", "\"", "}" >>),
    Str(<< "[", "1", ",", " ", "2", "]" >>),
    I64(1),
    F64(FALSE, << >>, << 1 >>),
    Bool(TRUE) }

\* The parameter set of the sorting example: {b:1, a:2, timestamp:3}.
SortingExample ==
  [ k \in { << "a" >>, << "b" >>, TimestampKey } |->
      IF k = << "a" >> THEN I64(2) ELSE IF k = << "b" >> THEN I64(1) ELSE I64(3) ]

ParamSets ==
  UNION { [ ks -> CanonValues ] : ks \in { ks \in SUBSET CanonKeys : Cardinality(ks) <= MaxKeys } }
    \cup { SortingExample }

InitCanon ==
  /\ client = NewClient([APIKey |-> << "k", "1" >>, APISecret |-> << "s", "3", "c" >>, BaseURL |-> ""])
  /\ call = IdleCall
  /\ ncalls = 0
  /\ \E params \in ParamSets : canon = [NoCanon EXCEPT !.stage = "input", !.params = params]
  /\ conc = NoConc

\* buildQueryString(params, false)
CanonPlain ==
  /\ canon.stage = "input"
  /\ \E order \in IterationOrders(DOMAIN canon.params) :
       canon' = [canon EXCEPT !.stage = "plain",
                              !.plain = buildQueryString(canon.params, FALSE, order)]
  /\ UNCHANGED << client, call, ncalls, conc >>

\* buildQueryString(params, false), called once more.
CanonAgain ==
  /\ canon.stage = "plain"
  /\ \E order \in IterationOrders(DOMAIN canon.params) :
       canon' = [canon EXCEPT !.stage = "again",
                              !.again = buildQueryString(canon.params, FALSE, order)]
  /\ UNCHANGED << client, call, ncalls, conc >>

\* buildQueryString(params, true)
CanonEncoded ==
  /\ canon.stage = "again"
  /\ \E order \in IterationOrders(DOMAIN canon.params) :
       canon' = [canon EXCEPT !.stage = "encoded",
                              !.encoded = buildQueryString(canon.params, TRUE, order)]
  /\ UNCHANGED << client, call, ncalls, conc >>

\* The secrets a message is signed with.
Secrets == { << "s", "3", "c" >>, << "K" >> }

\* sign(message) over the unencoded string, under some secret.
CanonSign ==
  /\ canon.stage = "encoded"
  /\ \E secret \in Secrets :
       canon' = [canon EXCEPT !.stage = "signed", !.secret = secret,
                              !.signature = sign(secret, canon.plain)]
  /\ UNCHANGED << client, call, ncalls, conc >>

NextCanon == CanonPlain \/ CanonAgain \/ CanonEncoded \/ CanonSign

SpecCanon == InitCanon /\ [][NextCanon]_vars

(***************************************************************************)
(* Concurrent calls on one Client                                          *)
(***************************************************************************)

\* The goroutines calling the client at the same time.
MaxThreads == 2

Threads == 1..MaxThreads

\* The calls they make: ListSymbols, which passes nil parameters, and a
\* PlaceOrder whose takeProfit is a JSON object.
ConcCalls ==
  { [op |-> OpOf("ListSymbols"), req |-> << >>],
    [op |-> OpOf("PlaceOrder"),
     req |-> [ZeroStruct(PlaceOrderRequest) EXCEPT
                ![<< "t", "a", "k", "e", "P", "r", "o", "f", "i", "t" >>] =
                  Str(<< "{", "\"", "t", "\"", ":", " ", "\"", "P", "+", "\"", "}" >>)]] }

\* What the transport answers to them.
ConcOutcomes == { Answer("error", "", 0, ""), Answer("ok", "ok", StatusOK, "{\"code\":0,\"msg\":\"\"}") }

\* One map for all calls, in place of a map of its own for each.
AllocMapShared(t) ==
  1

\* The map a call of goroutine t builds for its parameters (structToMap's
\* result, or make(map[string]interface{}) in doRequest): a new one.
AllocMap(t) ==
  t

\* The call of goroutine t, its parameters read from its map.
Load(t) == [conc.calls[t].c EXCEPT !.params = conc.heap[conc.calls[t].ref]]

\* The step of goroutine t leaves the call as c and c's parameters in the map ref.
Store(t, c, ref) ==
  conc' = [heap  |-> [conc.heap EXCEPT ![ref] = c.params],
           calls |-> [conc.calls EXCEPT ![t] = [c |-> c, ref |-> ref]]]

InitConc ==
  /\ client = NewClient([APIKey |-> << "k", "1" >>, APISecret |-> << "s", "3", "c" >>, BaseURL |-> ""])
  /\ call = IdleCall
  /\ ncalls = 0
  /\ canon = NoCanon
  /\ conc = [heap  |-> [ ref \in Threads |-> << >> ],
             calls |-> [ t \in Threads |-> [c |-> IdleCall, ref |-> 0] ]]

ConcInvoke(t) ==
  /\ conc.calls[t].c.pc = "idle"
  /\ \E x \in ConcCalls : Store(t, InvokeStep(IdleCall, x.op, x.req), AllocMap(t))
  /\ UNCHANGED << client, call, ncalls, canon >>

ConcStamp(t) ==
  /\ conc.calls[t].c.pc = "called"
  /\ \E now \in Timestamps : Store(t, StampStep(Load(t), now), conc.calls[t].ref)
  /\ UNCHANGED << client, call, ncalls, canon >>

ConcSign(t) ==
  /\ conc.calls[t].c.pc = "stamped"
  /\ \E order \in IterationOrders(DOMAIN Load(t).params) :
       Store(t, SignStep(Load(t), client.apiSecret, order), conc.calls[t].ref)
  /\ UNCHANGED << client, call, ncalls, canon >>

ConcEncode(t) ==
  /\ conc.calls[t].c.pc = "signed"
  /\ \E order \in IterationOrders(DOMAIN Load(t).params) :
       Store(t, EncodeStep(Load(t), order), conc.calls[t].ref)
  /\ UNCHANGED << client, call, ncalls, canon >>

ConcBuild(t) ==
  /\ conc.calls[t].c.pc = "encoded"
  /\ Store(t, BuildStep(Load(t), client.apiKey), conc.calls[t].ref)
  /\ UNCHANGED << client, call, ncalls, canon >>

ConcSend(t) ==
  /\ conc.calls[t].c.pc = "built"
  /\ \E outcome \in ConcOutcomes : Store(t, SendStep(Load(t), outcome), conc.calls[t].ref)
  /\ UNCHANGED << client, call, ncalls, canon >>

ConcFinish(t) ==
  /\ conc.calls[t].c.pc = "sent"
  /\ Store(t, FinishStep(Load(t)), conc.calls[t].ref)
  /\ UNCHANGED << client, call, ncalls, canon >>

\* The operation returns; its map is garbage once no other call holds it.
ConcReturn(t) ==
  /\ conc.calls[t].c.pc = "done"
  /\ LET ref  == conc.calls[t].ref
         held == \E u \in Threads \ {t} : conc.calls[u].ref = ref
     IN  conc' = [heap  |-> IF held THEN conc.heap ELSE [conc.heap EXCEPT ![ref] = << >>],
                  calls |-> [conc.calls EXCEPT ![t] = [c |-> ReturnStep(conc.calls[t].c), ref |-> 0]]]
  /\ UNCHANGED << client, call, ncalls, canon >>

NextConc ==
  \E t \in Threads :
    \/ ConcInvoke(t) \/ ConcStamp(t) \/ ConcSign(t) \/ ConcEncode(t)
    \/ ConcBuild(t) \/ ConcSend(t) \/ ConcFinish(t) \/ ConcReturn(t)

SpecConc == InitConc /\ [][NextConc]_vars

(***************************************************************************)
(* formatValue on its own: buildQueryString over one float64 value         *)
(***************************************************************************)

\* The decimal digits that tell one float64 from the next.
Float64Digits == 17

\* Integer parts: 0, 1, 19, 100, 100000000, the largest below 1e15, 1e15,
\* and 1e20.
IntegerParts ==
  { << >>, << 1 >>, << 1, 9 >>, << 1, 0, 0 >>, << 1 >> \o Zeros(8),
    [ i \in 1..15 |-> 9 ], << 1 >> \o Zeros(15), << 1 >> \o Zeros(20) }

\* Fractions: none, .1, .5, .00001234, .00009999, 2^-9 (a tie at 8 digits),
\* .999999999, .999999999999996 and 1e-11.
FractionParts ==
  { << >>, << 1 >>, << 5 >>, << 0, 0, 0, 0, 1, 2, 3, 4 >>, << 0, 0, 0, 0, 9, 9, 9, 9 >>,
    << 0, 0, 1, 9, 5, 3, 1, 2, 5 >>, [ i \in 1..9 |-> 9 ],
    [ i \in 1..15 |-> IF i = 15 THEN 6 ELSE 9 ], Zeros(10) \o << 1 >> }

\* The float64 values formatted: every sign, integer part and fraction that
\* together fit the precision of a float64.
FloatInputs ==
  { v \in { F64(neg, ip, fp) : neg \in BOOLEAN, ip \in IntegerParts, fp \in FractionParts } :
      v.fp = << >> \/ Len(v.ip) + Len(DropLeadingZeros(v.fp)) <= Float64Digits }

\* The key under which the value is formatted.
FormatKey == << "a" >>

InitFormat ==
  /\ client = NewClient([APIKey |-> << "k", "1" >>, APISecret |-> << "s", "3", "c" >>, BaseURL |-> ""])
  /\ call = IdleCall
  /\ ncalls = 0
  /\ \E v \in FloatInputs :
       canon = [NoCanon EXCEPT !.stage = "input", !.params = [ k \in { FormatKey } |-> v ]]
  /\ conc = NoConc

SpecFormat == InitFormat /\ [][NextCanon]_vars


(***************************************************************************)
(* Properties of a call (checked under Spec)                               *)
(***************************************************************************)

HasByte(s, set) == \E i \in 1..Len(s) : s[i] \in set

\* The call has computed its signature.
HasSigned == call.pc \in {"signed", "encoded", "built", "sent"} \/ (call.pc = "done" /\ call.signature # << >>)

\* The call has handed its request to the transport.
Dispatched == call.pc = "sent" \/ (call.pc = "done" /\ call.outcome # NoOutcome)

\* C1: the message passed to sign is buildQueryString(params, false) over the
\* parameters with the timestamp injected, whatever the iteration order; it
\* is not the percent-encoded string; and a request is dispatched only once
\* the signature over that message exists.
C1_SignsUnencodedBeforeDispatch ==
  /\ HasSigned =>
       /\ TimestampKey \in DOMAIN call.params
       /\ call.params[TimestampKey] = call.timestamp
       /\ \A order \in IterationOrders(DOMAIN call.params) :
            /\ call.signedMessage = buildQueryString(call.params, FALSE, order)
            /\ containsComplexValues(call.params) =>
                 call.signedMessage # buildQueryString(call.params, TRUE, order)
       /\ call.signature = sign(client.apiSecret, call.signedMessage)
  /\ Dispatched => HasSigned /\ call.signature # << >>

\* C1 witness: a dispatched request with a complex value, whose transmitted
\* string differs from the signed one.
C1_Witness ==
  /\ call.pc = "sent"
  /\ containsComplexValues(call.params)
  /\ call.queryString # call.signedMessage

HexVal(ch) ==
  IF Ord(ch) <= Ord("9") THEN Ord(ch) - Ord("0")
  ELSE IF Ord(ch) <= Ord("F") THEN Ord(ch) - Ord("A") + 10
  ELSE Ord(ch) - Ord("a") + 10

\* A %XX escape starts at position i of s.
EscapeAt(s, i) ==
  i >= 1 /\ i + 2 <= Len(s) /\ s[i] = "%" /\ IsHex(s[i + 1]) /\ IsHex(s[i + 2])

\* The byte a %XX escape stands for (bytes outside printable ASCII as "?").
DecodedByte(hi, lo) ==
  LET n == 16 * HexVal(hi) + HexVal(lo)
  IN  IF n >= 32 /\ n <= 126 THEN Ascii[n - 31] ELSE "?"

\* Percent-decoding: every %XX becomes its byte, everything else stays.
PercentDecode(s) ==
  Concat([ i \in 1..Len(s) |->
             IF EscapeAt(s, i) THEN << DecodedByte(s[i + 1], s[i + 2]) >>
             ELSE IF EscapeAt(s, i - 1) \/ EscapeAt(s, i - 2) THEN << >>
             ELSE << s[i] >> ])

\* The pieces of s between the occurrences of the byte sep.
SplitOn(s, sep) ==
  LET cuts   == { i \in 1..Len(s) : s[i] = sep }
      starts == {1} \cup { i + 1 : i \in cuts }
      ordered == CHOOSE o \in [1..Cardinality(starts) -> starts] :
                   \A i, j \in 1..Cardinality(starts) : i < j => o[i] < o[j]
  IN  [ n \in 1..Cardinality(starts) |->
          SubSeq(s, ordered[n],
                 (IF n = Cardinality(starts) THEN Len(s) + 1 ELSE ordered[n + 1] - 1) - 1) ]

PairKey(pair) == IF IndexOf(pair, "=") = 0 THEN pair ELSE SubSeq(pair, 1, IndexOf(pair, "=") - 1)

PairValue(pair) == IF IndexOf(pair, "=") = 0 THEN << >> ELSE SubSeq(pair, IndexOf(pair, "=") + 1, Len(pair))

\* What a server reconstructs from a query: each pair's value percent-decoded.
DecodeQuery(query) ==
  LET pairs == SplitOn(query, "&")
  IN  Join([ i \in 1..Len(pairs) |->
               IF IndexOf(pairs[i], "=") = 0 THEN pairs[i]
               ELSE PairKey(pairs[i]) \o << "=" >> \o PercentDecode(PairValue(pairs[i])) ],
           << "&" >>)

\* The call has chosen the string it transmits.
HasTransmitted == call.pc \in {"encoded", "built", "sent"}

\* C2: percent-decoding the values of the transmitted string gives back,
\* byte for byte, the string that was signed.
C2_TransmittedDecodesToSigned ==
  HasTransmitted => DecodeQuery(call.queryString) = call.signedMessage


\* C8: the query of every dispatched request is the transmitted string, then
\* "&signature=", then the signature: the signature pair is the last pair and
\* the only one with that key, the query does not start with "&", and the
\* request carries the API key header and no body.
C8_QueryEndsWithTheOneSignature ==
  Dispatched =>
    LET query == call.request.rawQuery
        pairs == SplitOn(query, "&")
    IN  /\ query = call.queryString \o << "&" >> \o SignatureParam \o << "=" >> \o call.signature
        /\ pairs[Len(pairs)] = SignatureParam \o << "=" >> \o call.signature
        /\ Cardinality({ i \in 1..Len(pairs) : PairKey(pairs[i]) = SignatureParam }) = 1
        /\ query # << >> /\ query[1] # "&"
        /\ call.request.header = << [name |-> apiKeyHeader, value |-> client.apiKey] >>
        /\ call.request.body = "nil"

\* C15: NewClient gives ErrInvalidCredentials and no client when the API key
\* or the API secret of the configuration is empty, and a client holding
\* both with no error otherwise; no call is made without a client, so every
\* signed or dispatched request has a non-empty key and a non-empty secret.
C15_EmptyCredentialsAreRejected ==
  /\ (client.cfg.APIKey = << >> \/ client.cfg.APISecret = << >>)
       => (~ client.ok /\ client.err = "ErrInvalidCredentials" /\ call = IdleCall /\ ncalls = 0)
  /\ (client.cfg.APIKey # << >> /\ client.cfg.APISecret # << >>)
       => /\ client.ok /\ client.err = "nil"
          /\ client.apiKey = client.cfg.APIKey /\ client.apiSecret = client.cfg.APISecret
  /\ (HasSigned \/ Dispatched) => (client.apiKey # << >> /\ client.apiSecret # << >>)

\* C15 witness: NewClient has refused a configuration with a key and no secret.
C15_Witness ==
  /\ client.cfg.APIKey # << >> /\ client.cfg.APISecret = << >>
  /\ ~ client.ok
  /\ client.err = "ErrInvalidCredentials"

\* doRequest has returned after dispatching its request.
Answered == call.pc = "done" /\ call.outcome # NoOutcome

\* C16: doRequest returns nil exactly when Do and the read succeeded, the
\* status is 200 and the body decodes into the result; a transport failure
\* gives an error wrapping ErrRequestFailed with no status, a status other
\* than 200 gives an error wrapping ErrRequestFailed that carries the status
\* and the raw body, the body left undecoded, and a 200 body that does not
\* decode gives an error wrapping ErrInvalidResponse.
C16_ErrorKindsAreReported ==
  Answered =>
    LET o == call.outcome
        e == call.err
    IN  /\ (e = NoError) <=> (o.do = "ok" /\ o.read = "ok" /\ o.status = 200
                               /\ o.body = "{\"code\":0,\"msg\":\"\"}")
        /\ call.hasResp <=> (e = NoError)
        /\ o.do = "error" => (e.is = "ErrRequestFailed" /\ e.format = "%w: %v")
        /\ (o.do = "ok" /\ o.read = "ok" /\ o.status # 200)
             => /\ e.is = "ErrRequestFailed" /\ e.format = "%w: status %d, body: %s"
                /\ e.status = o.status /\ e.body = o.body
                /\ ~ call.hasResp
        /\ (o.do = "ok" /\ o.read = "ok" /\ o.status = 200 /\ o.body = "Bad Gateway")
             => e.is = "ErrInvalidResponse"

\* C16 witness: a 500 answer with a JSON body has been returned as the
\* status error, the body not decoded.
C16_Witness ==
  /\ Answered
  /\ call.outcome = Answer("ok", "ok", 500, "{\"code\":0,\"msg\":\"\"}")
  /\ call.err.is = "ErrRequestFailed" /\ call.err.status = 500
  /\ ~ call.hasResp

\* C17: a call hands at most one request to the transport; once the request
\* is sent the call only finishes with the error of that answer (or nil) and
\* returns: it does not send again, and its timestamp, signature and request
\* stay as they were.
C17_AtMostOneRequestPerCall ==
  [][ /\ call'.sends <= 1
      /\ call.pc = "sent" => call'.pc = "done"
      /\ call.pc = "done" => call'.pc = "idle"
      /\ (call.pc = "sent" /\ call'.pc = "done")
           => /\ call'.sends = call.sends
              /\ call'.timestamp = call.timestamp
              /\ call'.signature = call.signature
              /\ call'.request = call.request
              /\ call.outcome # Answer("ok", "ok", 200, "{\"code\":0,\"msg\":\"\"}")
                   => call'.err # NoError ]_vars

\* C17 witness: a call has ended with the error of a transport failure after
\* its one request.
C17_Witness ==
  /\ call.pc = "done"
  /\ call.outcome.do = "error"
  /\ call.err # NoError
  /\ call.sends = 1

\* fmt: the digits of an integer, "-" first when it is negative.
IntegerText(v) ==
  (IF v.neg THEN << "-" >> ELSE << >>) \o (IF v.ds = << >> THEN << "0" >> ELSE DigitChars(v.ds))

\* The integer fields of the request that are set.
IntegerFields == { n \in DOMAIN call.req : call.req[n].kind = "int64" /\ call.req[n].ds # << >> }

\* C13: in the string that is signed, the timestamp and every non-zero
\* integer field of the request appear as name=digits, the digits exactly
\* those of the integer, the sign kept, with no fraction and no exponent.
C13_IntegersKeepTheirDigits ==
  HasSigned =>
    LET pairs == SplitOn(call.signedMessage, "&")
    IN  /\ \E i \in 1..Len(pairs) :
             pairs[i] = TimestampKey \o << "=" >> \o IntegerText(call.timestamp)
        /\ \A n \in IntegerFields :
             \E i \in 1..Len(pairs) : pairs[i] = n \o << "=" >> \o IntegerText(call.req[n])

\* The value is "", or a number equal to zero.
IsNullOrZero(v) ==
  \/ v.kind = "string" /\ v.s = << >>
  \/ v.kind = "float64" /\ v.ip = << >> /\ v.fp = << >>
  \/ v.kind = "int64" /\ v.ds = << >>

\* The map value m is the field value f: the same string, or the same number.
SameValue(f, m) ==
  CASE f.kind = "string"  -> m = Str(f.s)
    [] f.kind = "float64" -> m = f
    [] f.kind = "int64"   -> /\ m.kind = "float64" /\ m.neg = f.neg /\ m.fp = << >>
                             /\ Len(f.ds) <= 15 => m.ip = f.ds

\* The map of a request has just been returned by structToMap.
Converted == call.pc = "called" /\ ~ call.nilParams

\* C9: the map returned by structToMap has no "" and no zero value, and has
\* exactly the fields of the request that are not zero or empty, each under
\* its JSON name with its value; so a field set to 0 or "" (with or without
\* omitempty) leaves the same map as the field left unset.
C9_ZeroFieldsAreDropped ==
  Converted =>
    LET type == OpOf(call.op).type
    IN  /\ \A k \in DOMAIN call.params : ~ IsNullOrZero(call.params[k])
        /\ DOMAIN call.params = { n \in FieldNames(type) : ~ IsNullOrZero(call.req[n]) }
        /\ \A k \in DOMAIN call.params : SameValue(call.req[k], call.params[k])

\* C9 witness: the map of a SetLeverage request whose leverage (a field
\* without omitempty) is 0 and whose side is set.
C9_Witness ==
  /\ Converted
  /\ call.op = "SetLeverage"
  /\ \E n \in DOMAIN call.req : call.req[n] = I64(0)
  /\ DOMAIN call.params # {}

\* The values of the pairs of a query whose key is "timestamp".
TimestampValues(query) ==
  LET pairs == SplitOn(query, "&")
  IN  [ i \in { i \in 1..Len(pairs) : PairKey(pairs[i]) = TimestampKey } |-> PairValue(pairs[i]) ]

\* C19: the query of every dispatched request, the requests of operations
\* with nil parameters included, has exactly one pair with the key
\* "timestamp", its value the digits of the millisecond time read in this
\* call, and the signed string has the same one pair.
C19_OneTimestampPair ==
  Dispatched =>
    LET sent   == TimestampValues(call.request.rawQuery)
        signed == TimestampValues(call.signedMessage)
    IN  /\ Cardinality(DOMAIN sent) = 1
        /\ Cardinality(DOMAIN signed) = 1
        /\ \A i \in DOMAIN sent : sent[i] = IntegerText(call.timestamp)
        /\ \A i \in DOMAIN signed : signed[i] = IntegerText(call.timestamp)

\* C20: containsComplexValues holds exactly when the formatted form of some
\* value, as buildQueryString makes it, has "[" or "{"; so the string that
\* doRequest transmits is buildQueryString(params, true), whatever the
\* iteration order.
C20_ComplexityTestsAgree ==
  HasTransmitted =>
    /\ containsComplexValues(call.params)
         <=> (\E k \in DOMAIN call.params : HasByte(formatValue(call.params[k]), {"[", "{"}))
    /\ \A order \in IterationOrders(DOMAIN call.params) :
         call.queryString = buildQueryString(call.params, TRUE, order)

\* C20 witness: a call with a value holding "[" has its transmitted string,
\* which is the encoded one and not the signed one.
C20_Witness ==
  /\ HasTransmitted
  /\ \E k \in DOMAIN call.params : HasByte(formatValue(call.params[k]), {"["})
  /\ call.queryString # call.signedMessage

(***************************************************************************)
(* Properties of buildQueryString (checked under SpecCanon)                *)
(***************************************************************************)

\* a < b in byte-wise lexicographic order, stated by the first difference.
LexLess(a, b) ==
  \E i \in 1..Len(b) :
    /\ \A j \in 1..(i - 1) : j <= Len(a) /\ a[j] = b[j]
    /\ i = Len(a) + 1 \/ (i <= Len(a) /\ Ord(a[i]) < Ord(b[i]))

Ascending(ks) == \A i, j \in 1..Len(ks) : i < j => LexLess(ks[i], ks[j])

\* The keys of a parameter set, each once, in strictly ascending order.
AscendingKeys(params) == CHOOSE ks \in IterationOrders(DOMAIN params) : Ascending(ks)

\* The text of a value in the output: formatted, and escaped when encoding
\* is asked for and the formatted value is complex.
ValueText(v, urlEncode) ==
  IF urlEncode /\ isComplexValue(formatValue(v)) THEN EncodeValue(formatValue(v)) ELSE formatValue(v)

\* The pairs key=value in ascending order of the keys, joined by "&".
PairsInOrder(params, urlEncode) ==
  LET ks == AscendingKeys(params)
  IN  Join([ i \in 1..Len(ks) |-> ks[i] \o << "=" >> \o ValueText(params[ks[i]], urlEncode) ], << "&" >>)

CanonHasPlain == canon.stage \in {"plain", "again", "encoded", "signed"}

CanonHasEncoded == canon.stage \in {"encoded", "signed"}

\* C3: for both values of urlEncode the output is the pairs key=value in
\* strictly ascending byte order of the keys, each key once; the key
\* "timestamp" is sorted like the others: {b:1, a:2, timestamp:3} gives
\* "a=2&b=1&timestamp=3".
C3_PairsInAscendingKeyOrder ==
  /\ CanonHasPlain =>
       /\ \E ks \in IterationOrders(DOMAIN canon.params) : Ascending(ks)
       /\ canon.plain = PairsInOrder(canon.params, FALSE)
       /\ canon.params = SortingExample => canon.plain = << "a", "=", "2", "&", "b", "=", "1", "&", "t", "i", "m", "e", "s", "t", "a", "m", "p", "=", "3" >>
  /\ CanonHasEncoded => canon.encoded = PairsInOrder(canon.params, TRUE)

\* C3 witness: an encoded output for a set in which "timestamp" lies between
\* two other keys, one of them in upper case.
C3_Witness ==
  /\ CanonHasEncoded
  /\ << "B" >> \in DOMAIN canon.params
  /\ TimestampKey \in DOMAIN canon.params
  /\ \E k \in DOMAIN canon.params : LexLess(TimestampKey, k)

\* C4: two calls with urlEncode=false on the same mapping return the same
\* bytes, whatever order each call iterates the map in.
C4_Deterministic ==
  canon.stage \in {"again", "encoded", "signed"} => canon.again = canon.plain

\* C4 witness: a repeated call on a set with three or more keys.
C4_Witness ==
  /\ canon.stage = "again"
  /\ Cardinality(DOMAIN canon.params) >= 3

ComplexKeys(params) == { k \in DOMAIN params : isComplexValue(formatValue(params[k])) }

\* C5: without a complex value the two encodings are the same bytes, also
\* when values hold spaces, "&", "=", "%" or "+".
C5_NoComplexSameOutput ==
  (CanonHasEncoded /\ ComplexKeys(canon.params) = {}) => canon.encoded = canon.plain

\* C5 witness: both outputs for a set without complex values, one of whose
\* values holds a space, "&", "=", "%" and "+".
C5_Witness ==
  /\ CanonHasEncoded
  /\ ComplexKeys(canon.params) = {}
  /\ \E k \in DOMAIN canon.params :
       \A ch \in {" ", "&", "=", "%", "+"} : HasByte(formatValue(canon.params[k]), {ch})

\* The length of the pair of the i-th key in the unencoded output.
PlainLen(params, ks, i) == Len(ks[i]) + 1 + Len(formatValue(params[ks[i]]))

\* Where the pair of the i-th key starts in the unencoded output.
RECURSIVE PlainStart(_, _, _)
PlainStart(params, ks, i) ==
  IF i = 1 THEN 1 ELSE PlainStart(params, ks, i - 1) + PlainLen(params, ks, i - 1) + 1

\* The first "&" of s at or after position from, Len(s) + 1 when there is none.
NextAmp(s, from) ==
  IF \E i \in from..Len(s) : s[i] = "&"
  THEN CHOOSE i \in from..Len(s) : s[i] = "&" /\ \A j \in from..(i - 1) : s[j] # "&"
  ELSE Len(s) + 1

\* Where the pair of the i-th key ends in the encoded output: a pair with a
\* complex value runs to the next "&", any other is as long as unencoded.
RECURSIVE EncodedEnd(_, _, _, _)
EncodedEnd(out, params, ks, i) ==
  LET start == IF i = 1 THEN 1 ELSE EncodedEnd(out, params, ks, i - 1) + 2
  IN  IF ks[i] \in ComplexKeys(params) THEN NextAmp(out, start) - 1
      ELSE start + PlainLen(params, ks, i) - 1

EncodedStart(out, params, ks, i) ==
  IF i = 1 THEN 1 ELSE EncodedEnd(out, params, ks, i - 1) + 2

PlainPair(i) ==
  LET ks == AscendingKeys(canon.params)
  IN  SubSeq(canon.plain, PlainStart(canon.params, ks, i),
             PlainStart(canon.params, ks, i) + PlainLen(canon.params, ks, i) - 1)

EncodedPair(i) ==
  LET ks == AscendingKeys(canon.params)
  IN  SubSeq(canon.encoded, EncodedStart(canon.encoded, canon.params, ks, i),
             EncodedEnd(canon.encoded, canon.params, ks, i))

StartsWith(s, prefix) == Len(s) >= Len(prefix) /\ SubSeq(s, 1, Len(prefix)) = prefix

\* C6: with a complex value present, both outputs hold one pair per key, the
\* same keys in the same order, separated by "&"; the pair of a key whose
\* value is not complex is the same in both, so only the value part of the
\* complex-valued keys differs.
C6_OnlyComplexValuesDiffer ==
  (CanonHasEncoded /\ ComplexKeys(canon.params) # {}) =>
    LET ks == AscendingKeys(canon.params)
        n  == Len(ks)
    IN  /\ PlainStart(canon.params, ks, n) + PlainLen(canon.params, ks, n) - 1 = Len(canon.plain)
        /\ EncodedEnd(canon.encoded, canon.params, ks, n) = Len(canon.encoded)
        /\ \A i \in 1..n :
             /\ StartsWith(PlainPair(i), ks[i] \o << "=" >>)
             /\ StartsWith(EncodedPair(i), ks[i] \o << "=" >>)
             /\ i > 1 => /\ canon.plain[PlainStart(canon.params, ks, i) - 1] = "&"
                         /\ canon.encoded[EncodedStart(canon.encoded, canon.params, ks, i) - 1] = "&"
             /\ ks[i] \notin ComplexKeys(canon.params) => EncodedPair(i) = PlainPair(i)
             /\ ks[i] \in ComplexKeys(canon.params) => EncodedPair(i) # PlainPair(i)

\* C6 witness: both outputs for a set with a complex value and a value that
\* is not complex but holds "&" and "%".
C6_Witness ==
  /\ CanonHasEncoded
  /\ ComplexKeys(canon.params) # {}
  /\ \E k \in DOMAIN canon.params \ ComplexKeys(canon.params) :
       HasByte(formatValue(canon.params[k]), {"&"}) /\ HasByte(formatValue(canon.params[k]), {"%"})

\* The value part of the pair of the i-th key in the encoded output.
EncodedValue(i) ==
  LET ks == AscendingKeys(canon.params)
  IN  SubSeq(EncodedPair(i), Len(ks[i]) + 2, Len(EncodedPair(i)))

\* C7: the encoded form of a complex value holds no "+" and no space, and
\* percent-decoding it gives the formatted value back: a space went out as
\* "%20" and a "+" as "%2B".
C7_ComplexValueHasNoPlus ==
  CanonHasEncoded =>
    LET ks == AscendingKeys(canon.params)
    IN  \A i \in 1..Len(ks) :
          ks[i] \in ComplexKeys(canon.params) =>
            /\ ~ HasByte(EncodedValue(i), {"+", " "})
            /\ PercentDecode(EncodedValue(i)) = formatValue(canon.params[ks[i]])

\* C7 witness: the encoded output of a set with a complex value that holds
\* a space and a "+".
C7_Witness ==
  /\ CanonHasEncoded
  /\ \E k \in ComplexKeys(canon.params) :
       HasByte(formatValue(canon.params[k]), {" "}) /\ HasByte(formatValue(canon.params[k]), {"+"})


AnyOrder(params) == CHOOSE order \in IterationOrders(DOMAIN params) : TRUE

FormattedValues(params) == [ k \in DOMAIN params |-> formatValue(params[k]) ]

\* No key holds "=" or "&" and no formatted value holds "&".
SeparatorFree(params) ==
  \A k \in DOMAIN params : ~ HasByte(k, {"=", "&"}) /\ ~ HasByte(formatValue(params[k]), {"&"})

\* Every parameter set with its unencoded output, its formatted values and
\* whether it is free of separators.
CanonTable ==
  { [params |-> q, out |-> buildQueryString(q, FALSE, AnyOrder(q)),
     formatted |-> FormattedValues(q), free |-> SeparatorFree(q)] : q \in ParamSets }

\* C10 as claimed: two parameter sets have the same unencoded output if and
\* only if they are equal as mappings.
C10_Injective ==
  canon.stage = "plain" =>
    \A e \in CanonTable : (e.out = canon.plain) <=> (e.params = canon.params)

\* C10 as amended: parameter sets with the same keys and the same formatted
\* value for every key (equal mappings among them) have the same unencoded
\* output; and among the sets whose keys hold no "=" or "&" and whose
\* formatted values hold no "&", the same output is given only by sets with
\* the same keys and the same formatted values.
C10_InjectiveOnFormattedValues ==
  canon.stage = "plain" =>
    LET formatted == FormattedValues(canon.params)
        free      == SeparatorFree(canon.params)
    IN  \A e \in CanonTable :
          /\ e.formatted = formatted => e.out = canon.plain
          /\ (e.out = canon.plain /\ e.free /\ free) => e.formatted = formatted

\* C10 witness: an output that another parameter set, with other values but
\* the same formatted values, gives as well.
C10_Witness ==
  /\ canon.stage = "plain"
  /\ SeparatorFree(canon.params)
  /\ \E e \in CanonTable :
       e.params # canon.params /\ e.out = canon.plain /\ e.formatted = FormattedValues(canon.params)


\* C14: the signature of every message under every secret, the empty
\* message included, is 64 characters, each one of 0-9 and a-f, and signing
\* the same message under the same secret again gives the same signature.
C14_SignatureIs64LowerHex ==
  canon.stage = "signed" =>
    /\ Len(canon.signature) = 64
    /\ \A i \in 1..Len(canon.signature) :
         canon.signature[i] \in {"0", "1", "2", "3", "4", "5", "6", "7", "8", "9",
                                 "a", "b", "c", "d", "e", "f"}
    /\ sign(canon.secret, canon.plain) = canon.signature

\* C14 witness: the empty message has been signed.
C14_Witness ==
  /\ canon.stage = "signed"
  /\ canon.plain = << >>
  /\ Len(canon.signature) = 64

(***************************************************************************)
(* Properties of formatValue (checked under SpecFormat)                    *)
(***************************************************************************)

\* The value that was formatted, and its text in the output "a=<text>".
FormatInput == canon.params[FormatKey]

FormatOutput == SubSeq(canon.plain, Len(FormatKey) + 2, Len(canon.plain))

Formatted == canon.stage # "input" /\ DOMAIN canon.params = { FormatKey }

\* C11: a float64 zero is formatted as "0", and an integral float64 of
\* magnitude below 1e15 as its decimal digits after an optional "-", with no
\* decimal point, no fraction and no exponent.
C11_IntegralFloatIsItsDigits ==
  (Formatted /\ FormatInput.fp = << >> /\ Len(FormatInput.ip) <= 15) =>
     FormatOutput = IF FormatInput.ip = << >> THEN << "0" >>
                    ELSE (IF FormatInput.neg THEN << "-" >> ELSE << >>) \o DigitChars(FormatInput.ip)

\* C11 witness: 100000000.0 has been formatted as "100000000".
C11_Witness ==
  /\ Formatted
  /\ FormatInput = F64(FALSE, << 1, 0, 0, 0, 0, 0, 0, 0, 0 >>, << >>)
  /\ FormatOutput = << "1", "0", "0", "0", "0", "0", "0", "0", "0" >>

\* The output with the stripped zeros (and the stripped point) put back, up
\* to prec fractional digits.
RestoreFraction(out, prec) ==
  LET dot == IndexOf(out, ".")
  IN  IF dot = 0 THEN out \o << "." >> \o DigitChars(Zeros(prec))
      ELSE out \o DigitChars(Zeros(prec - (Len(out) - dot)))

\* The magnitude is at least 0.0001.
NotBelowOneTenThousandth(v) ==
  v.ip # << >> \/ \E i \in 1..4 : i <= Len(v.fp) /\ v.fp[i] # 0

\* C12: a float64 that is not integral is formatted as its fixed-point form
\* with 8 fractional digits (10 when the magnitude is below 0.0001), less the
\* trailing zeros of the fraction and a bare trailing "."; the output has no
\* exponent, does not end in "." or in a "0" after the point, and keeps every
\* digit before the point; 0.1 gives "0.1", 0.00001234 gives "0.00001234" and
\* 19.999999999999996 gives "20".
C12_FractionalFloatIsFixedAndStripped ==
  (Formatted /\ FormatInput.fp # << >>) =>
     LET v    == FormatInput
         out  == FormatOutput
         prec == IF NotBelowOneTenThousandth(v) THEN 8 ELSE 10
     IN  /\ RestoreFraction(out, prec) = FormatFixed(v, prec)
         /\ ~ HasByte(out, {"e", "E"})
         /\ out # << >> /\ out[Len(out)] # "."
         /\ HasByte(out, {"."}) => out[Len(out)] # "0"
         /\ v = F64(FALSE, << >>, << 1 >>) => out = << "0", ".", "1" >>
         /\ v = F64(FALSE, << >>, << 0, 0, 0, 0, 1, 2, 3, 4 >>)
              => out = << "0", ".", "0", "0", "0", "0", "1", "2", "3", "4" >>
         /\ v = F64(FALSE, << 1, 9 >>, [ i \in 1..15 |-> IF i = 15 THEN 6 ELSE 9 ])
              => out = << "2", "0" >>

\* C12 witness: 19.999999999999996 has been formatted as "20", the zeros and
\* the point stripped and the integer digits kept.
C12_Witness ==
  /\ Formatted
  /\ FormatInput = F64(FALSE, << 1, 9 >>, [ i \in 1..15 |-> IF i = 15 THEN 6 ELSE 9 ])
  /\ FormatOutput = << "2", "0" >>


(***************************************************************************)
(* Properties of concurrent calls (checked under SpecConc)                 *)
(***************************************************************************)

\* The call c as it comes out when it runs on its own, with its request and
\* its timestamp, on the client as NewClient built it.
Alone(c) ==
  LET fresh   == NewClient(client.cfg)
      stamped == StampStep(InvokeStep(IdleCall, OpOf(c.op), c.req), c.timestamp)
      signed  == SignStep(stamped, fresh.apiSecret, AnyOrder(stamped.params))
      encoded == EncodeStep(signed, AnyOrder(stamped.params))
  IN  BuildStep(encoded, fresh.apiKey)

\* C18: however concurrent calls on one client interleave, the client's key,
\* secret and base URL stay as NewClient set them, no two calls in progress
\* use the same parameter map, and the signed string, the signature and the
\* final query of every call are those of the same call run alone with its
\* own request and timestamp.
C18_ConcurrentCallsDoNotInterfere ==
  /\ client = NewClient(client.cfg)
  /\ \A t, u \in Threads :
       (t # u /\ conc.calls[t].c.pc # "idle" /\ conc.calls[u].c.pc # "idle")
         => conc.calls[t].ref # conc.calls[u].ref
  /\ \A t \in Threads :
       LET c == conc.calls[t].c
       IN  /\ c.pc \in {"signed", "encoded", "built", "sent", "done"}
                => /\ c.signedMessage = Alone(c).signedMessage
                   /\ c.signature = Alone(c).signature
           /\ c.pc \in {"built", "sent", "done"} => c.finalQuery = Alone(c).finalQuery

\* C18 witness: two calls of ListSymbols with different timestamps are in
\* progress at once, both with their final query built.
C18_Witness ==
  \E t, u \in Threads :
    /\ t # u
    /\ conc.calls[t].c.pc = "built" /\ conc.calls[u].c.pc = "built"
    /\ conc.calls[t].c.op = "ListSymbols" /\ conc.calls[u].c.op = "ListSymbols"
    /\ conc.calls[t].c.timestamp # conc.calls[u].c.timestamp
    /\ conc.calls[t].c.finalQuery # conc.calls[u].c.finalQuery

\* C21: when an operation returns, exactly one of its response and its error
\* is non-nil: after any failure (of structToMap or of doRequest) it returns
\* nil and that error, so a response partly filled by a failed decode is
\* never returned, and after success it returns the fully decoded response
\* and a nil error.
C21_ExactlyOneOfResponseAndError ==
  [][call.pc = "done" =>
       LET r == call'.returned
       IN  /\ call'.pc = "idle"
           /\ (r.resp = "nil") # (r.err = NoError)
           /\ call.err # NoError => (r.resp = "nil" /\ r.err = call.err)
           /\ call.err = NoError => (r.err = NoError /\ r.resp = "all" /\ call.filled = "all")
           /\ r.resp # "partial"]_vars

\* C21 witness: an operation has returned after json.Unmarshal failed on a
\* mistyped member: its resp variable was partly filled, and it returned nil
\* with the ErrInvalidResponse error.
C21_Witness ==
  /\ call.pc = "idle"
  /\ call.returned.local = "partial"
  /\ call.returned.resp = "nil"
  /\ call.returned.err.is = "ErrInvalidResponse"

=============================================================================
